---- MODULE Spec2Model ----
(***************************************************************************)
(* The Stock Forecast App (src/main.py): one Streamlit script run          *)
(* (main) loads the price history of the selected stock through the        *)
(* memoized load_stock_data, slices and renames it into the training       *)
(* frame, fits a SARIMAX model, forecasts n_years * 365 steps, pairs the   *)
(* predicted means with a daily date range and displays the result.        *)
(*                                                                         *)
(* Streamlit runs the script of every browser session in a thread of its   *)
(* own; the sessions share the process-wide cache of load_stock_data and   *)
(* nothing else.  src/main.py takes no lock: a run that misses the cache   *)
(* waits in yf.download while other runs go on, and stores what it got     *)
(* when the download returns.  The steps after the load touch only the     *)
(* locals of the run.                                                      *)
(*                                                                         *)
(* Dates are day numbers counted from START (2012-01-01, a Sunday), so     *)
(* d % 7 = 0 is a Sunday and d % 7 = 6 a Saturday.  A DataFrame is a       *)
(* record [index, data], data mapping a column name to the sequence of     *)
(* its values; a Series is a record [index, values].                       *)
(*                                                                         *)
(* pandas, statsmodels, yfinance and streamlit are not part of the         *)
(* repository.  What they return is modelled by their documented           *)
(* behaviour; whether SARIMAX(...).fit raises on a given series and which  *)
(* rows yfinance returns are choices of the environment.  The numerical    *)
(* value of a predicted mean is not computed: the mean of step k of the    *)
(* fitted model held in results is kept as the term [step |-> k].          *)
(***************************************************************************)
EXTENDS Integers, Sequences, FiniteSets, TLC

VARIABLES
    pc,                  \* per session: position of its script run in main()
    runs,                \* per session: number of script runs started
    selection,           \* per session: dropdown_box_selection_stock_code
    n_years,             \* per session: slider value
    period,              \* per session: n_years * 365
    cache,               \* st.cache of load_stock_data: stock code -> DataFrame
    stock_data,          \* per session: local of main
    df_train,            \* per session: local of main
    results,             \* per session: local of main, the fitted model
    forecast_values,     \* per session: local of main, predicted_mean Series
    forecast_dataframe,  \* per session: local of main
    stock_data_state,    \* per session: text of the stock_data_state placeholder
    forecast_state,      \* per session: text of the forecast_state placeholder
    shown,               \* per session: data elements the run has put on the page
    error,               \* per session: exception that ended the run
    trace                \* per session: core steps the run has performed

vars == <<pc, runs, selection, n_years, period, cache, stock_data, df_train,
          results, forecast_values, forecast_dataframe, stock_data_state,
          forecast_state, shown, error, trace>>

\* ---------------------------------------------------------------- bounds
MaxSessions == 2
MaxRuns == 2
MaxYears == 2
MaxRows == 25
MaxStocks == 2

\* ------------------------------------------------------ program constants
SliderMin == 1
SliderMax == 10
DaysPerYear == 365
seasonal_periods == 12

\* lines 26-29
unsortedStocksCodes ==
    <<"JNJ", "GOOG", "AAPL", "BRK-A", "AMZN", "MSFT", "JPM", "NFLX", "META",
      "BAC", "GME", "MCD", "KO">>

unsortedStocksList ==
    <<"Johnson & Johnson", "Alphabet Inc Class C", "Apple Inc",
      "Berkshire Hathaway Inc. Class A", "Amazon.com, Inc.",
      "Microsoft Corporation", "JPMorgan Chase & Co", "Netflix Inc",
      "Meta Platforms Inc", "Bank of America Corp", "GameStop Corp.",
      "McDonald's Corp", "Coca-Cola Co">>

\* line 30: dict(zip(names, codes))
stocks_dictionary ==
    [name \in {unsortedStocksList[i] : i \in 1..Len(unsortedStocksList)} |->
        unsortedStocksCodes[CHOOSE i \in 1..Len(unsortedStocksList) :
                                unsortedStocksList[i] = name]]

\* lines 31-32: tuple(sorted(unsortedStocksList)), in Python's string order
\* (code points: "JPMorgan" sorts before "Johnson")
stocks ==
    <<"Alphabet Inc Class C", "Amazon.com, Inc.", "Apple Inc",
      "Bank of America Corp", "Berkshire Hathaway Inc. Class A",
      "Coca-Cola Co", "GameStop Corp.", "JPMorgan Chase & Co",
      "Johnson & Johnson", "McDonald's Corp", "Meta Platforms Inc",
      "Microsoft Corporation", "Netflix Inc">>

NONE == [none |-> TRUE]
NoError == "none"

Min(a, b) == IF a < b THEN a ELSE b

Range(s) == {s[i] : i \in 1..Len(s)}

\* the entries of the dropdown a user picks among: the first MaxStocks of
\* stocks; main never branches on the entry picked
Options == {stocks[i] : i \in 1..Min(MaxStocks, Len(stocks))}

\* line 92: an untouched selectbox returns its first option
DefaultCode == stocks_dictionary[stocks[1]]

\* ------------------------------------------------------------ pandas values
RangeIndex(start, stop) == [i \in 1..(stop - start) |-> start + i - 1]

Column(df, c) == [index |-> df.index, values |-> df.data[c]]

NRows(df) == Len(df.index)

\* data.reset_index(inplace=True): the Date index becomes a column and the
\* frame gets the positional index 0..n-1
reset_index(df) ==
    [index |-> RangeIndex(0, Len(df.index)),
     data  |-> [c \in (DOMAIN df.data) \cup {"Date"} |->
                   IF c = "Date" THEN df.index ELSE df.data[c]]]

\* stock_data[['Date', 'Close']]: a new frame holding the named columns
SelectColumns(df, cols) ==
    [index |-> df.index, data |-> [c \in cols |-> df.data[c]]]

Renamed(mapping, c) == IF c \in DOMAIN mapping THEN mapping[c] ELSE c

\* df.rename(columns=mapping): a new frame, the columns renamed
rename(df, mapping) ==
    [index |-> df.index,
     data  |-> [c2 \in {Renamed(mapping, c) : c \in DOMAIN df.data} |->
                   df.data[CHOOSE c \in DOMAIN df.data :
                               Renamed(mapping, c) = c2]]]

\* ------------------------------------------------------------ yf.download
IsTradingDay(d) == d % 7 \in 1..5

RECURSIVE NextTradingDay(_)
NextTradingDay(d) == IF IsTradingDay(d) THEN d ELSE NextTradingDay(d + 1)

RECURSIVE TradingDays(_, _)
TradingDays(d0, n) ==
    IF n = 0 THEN <<>>
    ELSE LET d == NextTradingDay(d0) IN <<d>> \o TradingDays(d + 1, n - 1)

FirstDays == {5}
RowCounts == {0, 2 * seasonal_periods - 1, 2 * seasonal_periods, MaxRows}

\* the prices of the i-th row: a climbing close, an open on either side
ClosePrice(i) == 10 + i
OpenPrice(i) == ClosePrice(i) + 2 * (i % 2) - 1

\* what yf.download(stock_code, START, TODAY) may return: n rows indexed by
\* ascending trading days, with Open and Close columns
DownloadFrame(n, d0) ==
    [index |-> TradingDays(d0, n),
     data  |-> [Open  |-> [i \in 1..n |-> OpenPrice(i)],
                Close |-> [i \in 1..n |-> ClosePrice(i)]]]

Downloads == {DownloadFrame(n, d0) : n \in RowCounts, d0 \in FirstDays}

\* ------------------------------------------------------------ the core steps
Period52Weeks(years) == years * 52 * 7

Period(years) == years * DaysPerYear

\* line 136 switched on: y holds the first differences
prepare_diff(raw) ==
    LET base == rename(SelectColumns(raw, {"Date", "Close"}),
                       [Date |-> "ds", Close |-> "y"])
    IN  [index |-> base.index,
         data  |-> [ds |-> base.data["ds"],
                    y  |-> [i \in 1..Len(base.index) |->
                               IF i = 1 THEN 0 - 1   \* stands for NaN
                               ELSE base.data["y"][i] - base.data["y"][i - 1]]]]

\* lines 131-132
prepare(raw) ==
    rename(SelectColumns(raw, {"Date", "Close"}), [Date |-> "ds", Close |-> "y"])

\* line 139-142: the fitted model of the y column
FittedModel(train) ==
    [endog |-> Column(train, "y"),
     order |-> <<1, 1, 1>>,
     seasonal_order |-> <<1, 1, 1, seasonal_periods>>]

\* line 145: results.get_forecast(steps).predicted_mean; the forecast of a
\* model whose endog has the index 0..n-1 is indexed n..n+steps-1
get_forecast(res, steps) ==
    LET n == Len(res.endog.index) IN
    [index  |-> RangeIndex(n, n + steps),
     values |-> [k \in 1..steps |-> [step |-> k]]]

\* freq='B': business days only
bdate_range(start, periods) ==
    LET first == NextTradingDay(start) IN
    [i \in 1..periods |->
        first + (i - 1) + 2 * (((first % 7) - 1 + (i - 1)) \div 5)]

\* pd.date_range(start, periods, freq='D')
date_range(start, periods) == [i \in 1..periods |-> start + (i - 1)]

\* lines 148-149: iloc[-1] of an empty column raises IndexError; the
\* DataFrame constructor takes its index from the Series and raises
\* ValueError when the date array has another length
assemble(train, horizon, predicted) ==
    IF NRows(train) = 0
    THEN [error |-> "IndexError", frame |-> NONE]
    ELSE LET last == train.data["ds"][NRows(train)]
             forecast_index == date_range(last + 1, horizon)
         IN  IF Len(forecast_index) # Len(predicted.index)
             THEN [error |-> "ValueError", frame |-> NONE]
             ELSE [error |-> NoError,
                   frame |-> [index |-> predicted.index,
                              data  |-> [ds |-> forecast_index,
                                         y  |-> predicted.values]]]

\* ------------------------------------------------------------------ actions
Sessions == 1..MaxSessions

RECURSIVE Sum(_, _)
Sum(f, n) == IF n = 0 THEN 0 ELSE f[n] + Sum(f, n - 1)

RunsStarted == Sum(runs, MaxSessions)

Init ==
    /\ pc = [s \in Sessions |-> "idle"]
    /\ runs = [s \in Sessions |-> 0]
    /\ selection = [s \in Sessions |-> DefaultCode]
    /\ n_years = [s \in Sessions |-> SliderMin]
    /\ period = [s \in Sessions |-> Period(SliderMin)]
    /\ cache = <<>>
    /\ stock_data = [s \in Sessions |-> NONE]
    /\ df_train = [s \in Sessions |-> NONE]
    /\ results = [s \in Sessions |-> NONE]
    /\ forecast_values = [s \in Sessions |-> NONE]
    /\ forecast_dataframe = [s \in Sessions |-> NONE]
    /\ stock_data_state = [s \in Sessions |-> "none"]
    /\ forecast_state = [s \in Sessions |-> "none"]
    /\ shown = [s \in Sessions |-> <<>>]
    /\ error = [s \in Sessions |-> NoError]
    /\ trace = [s \in Sessions |-> <<>>]

\* a session runs its script when it is opened and again when its user
\* moves a widget; sessions are opened in the order of their numbers
MayStart(s) ==
    /\ pc[s] \in {"idle", "done", "failed"}
    /\ RunsStarted < MaxRuns
    /\ (s > 1 /\ runs[s] = 0) => runs[s - 1] > 0

\* lines 92-98: the first run of a session reads the widgets untouched
\* (first option, slider at its minimum); a later run reads whatever the
\* widgets hold by then, either of them moved or not
WidgetValues(s, code, years) ==
    /\ \E name \in Options : code = stocks_dictionary[name]
    /\ years \in SliderMin..Min(SliderMax, MaxYears)
    /\ runs[s] = 0 => code = DefaultCode /\ years = SliderMin

\* lines 74-107: a script run starts with fresh locals and an empty page
Begin(s, code, years) ==
    /\ runs' = [runs EXCEPT ![s] = @ + 1]
    /\ selection' = [selection EXCEPT ![s] = code]
    /\ n_years' = [n_years EXCEPT ![s] = years]
    /\ period' = [period EXCEPT ![s] = Period(years)]
    /\ df_train' = [df_train EXCEPT ![s] = NONE]
    /\ results' = [results EXCEPT ![s] = NONE]
    /\ forecast_values' = [forecast_values EXCEPT ![s] = NONE]
    /\ forecast_dataframe' = [forecast_dataframe EXCEPT ![s] = NONE]
    /\ error' = [error EXCEPT ![s] = NoError]
    /\ trace' = [trace EXCEPT ![s] = <<>>]

\* lines 109-126: the raw data is shown and the forecast announced
RawShown(s) ==
    /\ stock_data_state' = [stock_data_state EXCEPT ![s] = "loaded"]
    /\ shown' = [shown EXCEPT ![s] = <<"raw_head", "raw_tail", "scatter_plot">>]
    /\ forecast_state' = [forecast_state EXCEPT ![s] = "forecasting"]
    /\ pc' = [pc EXCEPT ![s] = "shown"]

\* lines 74-126, load_stock_data finds the stock code in the cache
StartHit(s) ==
    /\ MayStart(s)
    /\ \E code \in DOMAIN cache,
          years \in SliderMin..Min(SliderMax, MaxYears) :
        /\ WidgetValues(s, code, years)
        /\ Begin(s, code, years)
        /\ stock_data' = [stock_data EXCEPT ![s] = cache[code]]
    /\ RawShown(s)
    /\ UNCHANGED cache

\* lines 74-108 and 36-47: the stock code is not in the cache and the run
\* goes into yf.download
StartMiss(s) ==
    /\ MayStart(s)
    /\ \E code \in Range(unsortedStocksCodes) \ DOMAIN cache,
          years \in SliderMin..Min(SliderMax, MaxYears) :
        /\ WidgetValues(s, code, years)
        /\ Begin(s, code, years)
    /\ stock_data' = [stock_data EXCEPT ![s] = NONE]
    /\ stock_data_state' = [stock_data_state EXCEPT ![s] = "loading"]
    /\ shown' = [shown EXCEPT ![s] = <<>>]
    /\ forecast_state' = [forecast_state EXCEPT ![s] = "none"]
    /\ pc' = [pc EXCEPT ![s] = "downloading"]
    /\ UNCHANGED cache

\* lines 47-51 and 109-126: yf.download returns, the index is reset and the
\* frame is stored under the stock code, over whatever another run stored
\* there in the meantime
DownloadReturns(s) ==
    /\ pc[s] = "downloading"
    /\ \E raw \in Downloads :
        LET data == reset_index(raw) IN
        /\ stock_data' = [stock_data EXCEPT ![s] = data]
        /\ cache' = [c \in (DOMAIN cache) \cup {selection[s]} |->
                        IF c = selection[s] THEN data ELSE cache[c]]
    /\ RawShown(s)
    /\ UNCHANGED <<runs, selection, n_years, period, df_train, results,
                   forecast_values, forecast_dataframe, error, trace>>

\* line 47: yf.download raises; nothing is stored and the exception leaves
\* main
DownloadRaises(s) ==
    /\ pc[s] = "downloading"
    /\ error' = [error EXCEPT ![s] = "DownloadException"]
    /\ pc' = [pc EXCEPT ![s] = "failed"]
    /\ UNCHANGED <<runs, selection, n_years, period, cache, stock_data,
                   df_train, results, forecast_values, forecast_dataframe,
                   stock_data_state, forecast_state, shown, trace>>

\* the columns are renamed in the loaded frame itself (inplace=True), which
\* is the object the cache holds
PrepareInPlace(s) ==
    /\ pc[s] = "shown"
    /\ LET renamed == rename(stock_data[s], [Date |-> "ds", Close |-> "y"]) IN
        /\ stock_data' = [stock_data EXCEPT ![s] = renamed]
        /\ cache' = [c \in DOMAIN cache |->
                        IF cache[c] = stock_data[s] THEN renamed ELSE cache[c]]
        /\ df_train' = [df_train EXCEPT ![s] =
                            SelectColumns(renamed, {"ds", "y"})]
    /\ trace' = [trace EXCEPT ![s] = Append(@, "prepare")]
    /\ pc' = [pc EXCEPT ![s] = "prepared"]
    /\ UNCHANGED <<runs, selection, n_years, period, results,
                   forecast_values, forecast_dataframe, stock_data_state,
                   forecast_state, shown, error>>

\* lines 131-132
Prepare(s) ==
    /\ pc[s] = "shown"
    /\ df_train' = [df_train EXCEPT ![s] = prepare(stock_data[s])]
    /\ trace' = [trace EXCEPT ![s] = Append(@, "prepare")]
    /\ pc' = [pc EXCEPT ![s] = "prepared"]
    /\ UNCHANGED <<runs, selection, n_years, period, cache, stock_data,
                   results, forecast_values, forecast_dataframe,
                   stock_data_state, forecast_state, shown, error>>

\* lines 139-142, SARIMAX(...).fit(disp=False) returns
FitReturns(s) ==
    /\ pc[s] = "prepared"
    /\ results' = [results EXCEPT ![s] = FittedModel(df_train[s])]
    /\ trace' = [trace EXCEPT ![s] = Append(@, "fit")]
    /\ pc' = [pc EXCEPT ![s] = "fitted"]
    /\ UNCHANGED <<runs, selection, n_years, period, cache, stock_data,
                   df_train, forecast_values, forecast_dataframe,
                   stock_data_state, forecast_state, shown, error>>

\* the fit is tried again after an exception
FitRaisesRetry(s) ==
    /\ pc[s] = "prepared"
    /\ trace' = [trace EXCEPT ![s] = Append(@, "fit")]
    /\ UNCHANGED <<pc, runs, selection, n_years, period, cache, stock_data,
                   df_train, results, forecast_values, forecast_dataframe,
                   stock_data_state, forecast_state, shown, error>>

\* the exception is swallowed and the last observed value is forecast
FitRaisesFallback(s) ==
    /\ pc[s] = "prepared"
    /\ error' = [error EXCEPT ![s] = "FitException"]
    /\ forecast_values' = [forecast_values EXCEPT ![s] =
           [index  |-> RangeIndex(NRows(df_train[s]),
                                  NRows(df_train[s]) + period[s]),
            values |-> [k \in 1..period[s] |->
                           IF NRows(df_train[s]) = 0 THEN 0
                           ELSE df_train[s].data["y"][NRows(df_train[s])]]]]
    /\ trace' = [trace EXCEPT ![s] = Append(@, "fit")]
    /\ pc' = [pc EXCEPT ![s] = "forecasted"]
    /\ UNCHANGED <<runs, selection, n_years, period, cache, stock_data,
                   df_train, results, forecast_dataframe, stock_data_state,
                   forecast_state, shown>>

\* lines 139-142, SARIMAX(...) or fit raises: the exception leaves main
FitRaises(s) ==
    /\ pc[s] = "prepared"
    /\ error' = [error EXCEPT ![s] = "FitException"]
    /\ trace' = [trace EXCEPT ![s] = Append(@, "fit")]
    /\ pc' = [pc EXCEPT ![s] = "failed"]
    /\ UNCHANGED <<runs, selection, n_years, period, cache, stock_data,
                   df_train, results, forecast_values, forecast_dataframe,
                   stock_data_state, forecast_state, shown>>

\* line 145
Forecast(s) ==
    /\ pc[s] = "fitted"
    /\ forecast_values' =
           [forecast_values EXCEPT ![s] = get_forecast(results[s], period[s])]
    /\ trace' = [trace EXCEPT ![s] = Append(@, "forecast")]
    /\ pc' = [pc EXCEPT ![s] = "forecasted"]
    /\ UNCHANGED <<runs, selection, n_years, period, cache, stock_data,
                   df_train, results, forecast_dataframe, stock_data_state,
                   forecast_state, shown, error>>

\* lines 148-167: the forecast frame is built and, unless building it
\* raised, shown with the plot and the closing status text
Assemble(s) ==
    /\ pc[s] = "forecasted"
    /\ LET r == assemble(df_train[s], period[s], forecast_values[s]) IN
        /\ forecast_dataframe' = [forecast_dataframe EXCEPT ![s] = r.frame]
        /\ error' = [error EXCEPT ![s] = r.error]
        /\ IF r.error = NoError
           THEN /\ shown' = [shown EXCEPT ![s] =
                                @ \o <<"forecast_tail", "forecast_plot">>]
                /\ forecast_state' = [forecast_state EXCEPT ![s] = "done"]
                /\ pc' = [pc EXCEPT ![s] = "done"]
           ELSE /\ UNCHANGED <<shown, forecast_state>>
                /\ pc' = [pc EXCEPT ![s] = "failed"]
    /\ trace' = [trace EXCEPT ![s] = Append(@, "assemble")]
    /\ UNCHANGED <<runs, selection, n_years, period, cache, stock_data,
                   df_train, results, forecast_values, stock_data_state>>

Next ==
    \E s \in Sessions :
        \/ StartHit(s)
        \/ StartMiss(s)
        \/ DownloadReturns(s)
        \/ DownloadRaises(s)
        \/ Prepare(s)
        \/ FitReturns(s)
        \/ FitRaises(s)
        \/ Forecast(s)
        \/ Assemble(s)

Spec == Init /\ [][Next]_vars

\* ------------------------------------------------------------------ claims
CoreOrder == <<"prepare", "fit", "forecast", "assemble">>

MinObservations == 2 * seasonal_periods

LastObservedDate(s) == df_train[s].data["ds"][NRows(df_train[s])]

\* C1: the forecast dates are exactly D+1, D+2, ..., D+H for the last
\* observed date D and the horizon H: ascending, daily, without gaps or
\* duplicates, beginning the day after D, weekend days included.
C1_ForecastDatesDaily ==
    \A s \in Sessions :
        forecast_dataframe[s] # NONE =>
            LET ds == forecast_dataframe[s].data["ds"] IN
            /\ Len(ds) = period[s]
            /\ \A i \in 1..Len(ds) : ds[i] = LastObservedDate(s) + i

\* a two-year forecast whose dates run through a Saturday and a Sunday
C1_Witness ==
    \E s \in Sessions :
        /\ pc[s] = "done"
        /\ n_years[s] = 2
        /\ LET ds == forecast_dataframe[s].data["ds"] IN
            /\ \E i \in 1..7 : ds[i] % 7 = 6 /\ ds[i + 1] % 7 = 0
            /\ ds[period[s]] = LastObservedDate(s) + 2 * DaysPerYear

\* C2: for a series of at least 24 points the forecast holds exactly
\* H = n_years * 365 predicted values, n_years in 1..10, and the assembled
\* forecast series has exactly H rows.
C2_ForecastLength ==
    \A s \in Sessions :
        (df_train[s] # NONE /\ NRows(df_train[s]) >= MinObservations) =>
            /\ n_years[s] \in SliderMin..SliderMax
            /\ period[s] = n_years[s] * DaysPerYear
            /\ forecast_values[s] # NONE =>
                  /\ Len(forecast_values[s].values) = n_years[s] * DaysPerYear
                  /\ Len(forecast_values[s].index) = n_years[s] * DaysPerYear
            /\ forecast_dataframe[s] # NONE =>
                  /\ NRows(forecast_dataframe[s]) = n_years[s] * DaysPerYear
                  /\ Len(forecast_dataframe[s].data["ds"]) = n_years[s] * DaysPerYear
                  /\ Len(forecast_dataframe[s].data["y"]) = n_years[s] * DaysPerYear

C2_Witness ==
    \E s \in Sessions :
        /\ pc[s] = "done"
        /\ NRows(df_train[s]) = MaxRows
        /\ n_years[s] = 2
        /\ NRows(forecast_dataframe[s]) = 2 * DaysPerYear

\* C3: an empty raw series makes preparing fail with InvalidInputError
\* before any fit is attempted; neither an observed nor a forecast series
\* is produced.
C3_EmptyInputRejected ==
    \A s \in Sessions :
        (stock_data[s] # NONE /\ NRows(stock_data[s]) = 0 /\ pc[s] # "shown") =>
            /\ pc[s] = "failed"
            /\ error[s] = "InvalidInputError"
            /\ "fit" \notin Range(trace[s])
            /\ df_train[s] = NONE
            /\ forecast_dataframe[s] = NONE

\* C4: fitting a prepared series of fewer than 24 observations fails with
\* ModelFitError and returns no fitted model.
C4_ShortSeriesFitFails ==
    \A s \in Sessions :
        (df_train[s] # NONE /\ NRows(df_train[s]) < MinObservations
            /\ "fit" \in Range(trace[s])) =>
            /\ pc[s] = "failed"
            /\ error[s] = "ModelFitError"
            /\ results[s] = NONE

\* C6: a run performs prepare, fit, forecast and assemble in that order,
\* each at most once; forecast follows a fit that returned a model, and a
\* run that completes has performed all four.
C6_StrictSequence ==
    \A s \in Sessions :
        /\ Len(trace[s]) <= Len(CoreOrder)
        /\ \A i \in 1..Len(trace[s]) :
              i <= Len(CoreOrder) => trace[s][i] = CoreOrder[i]
        /\ "forecast" \in Range(trace[s]) => results[s] # NONE
        /\ "assemble" \in Range(trace[s]) => forecast_values[s] # NONE
        /\ pc[s] = "done" => trace[s] = CoreOrder

\* one run ended by a raising fit, after its single attempt, beside a run
\* that performed all four steps
C6_Witness ==
    \E s, t \in Sessions :
        /\ pc[s] = "failed"
        /\ trace[s] = <<"prepare", "fit">>
        /\ pc[t] = "done"
        /\ trace[t] = CoreOrder

\* C7: a failure ends the run with the exception that was raised: after a
\* failed fit the run goes no further, no forecast series exists or is
\* shown, no substitute forecast is made and the status never reads done.
C7_FailureIsFatal ==
    \A s \in Sessions :
        /\ error[s] # NoError <=> pc[s] = "failed"
        /\ ("fit" \in Range(trace[s]) /\ results[s] = NONE) =>
              /\ pc[s] = "failed"
              /\ error[s] = "FitException"
              /\ forecast_values[s] = NONE
        /\ pc[s] = "failed" =>
              /\ forecast_dataframe[s] = NONE
              /\ "forecast_tail" \notin Range(shown[s])
              /\ "forecast_plot" \notin Range(shown[s])
              /\ forecast_state[s] # "done"

\* the second run of a session fails in the fit of a long enough series
C7_Witness ==
    \E s \in Sessions :
        /\ pc[s] = "failed"
        /\ error[s] = "FitException"
        /\ runs[s] = 2
        /\ NRows(df_train[s]) >= MinObservations
        /\ Range(shown[s]) = {"raw_head", "raw_tail", "scatter_plot"}

\* C8: the core shares no mutable state between invocations and never
\* modifies the memoized raw data.  A run that starts has none of an
\* earlier run's training series, fitted model or forecast; a core step
\* (prepare, fit, forecast, assemble) leaves the cache and every run's raw
\* frame as they were; the cache changes only when load_stock_data stores
\* a finished download, and then only under the code that was downloaded;
\* a run that starts on a code already memoized reads exactly the rows the
\* cache holds for that code, and the cache keeps them.
C8_CoreLeavesCache ==
    [][/\ \A s \in Sessions :
             /\ runs'[s] # runs[s] =>
                   /\ df_train'[s] = NONE
                   /\ results'[s] = NONE
                   /\ forecast_values'[s] = NONE
                   /\ forecast_dataframe'[s] = NONE
             /\ trace'[s] # trace[s] /\ runs'[s] = runs[s] =>
                   /\ cache' = cache
                   /\ stock_data' = stock_data
             /\ runs'[s] # runs[s] /\ selection'[s] \in DOMAIN cache =>
                   /\ stock_data'[s] = cache[selection'[s]]
                   /\ cache' = cache
       /\ cache' # cache =>
             \E t \in Sessions :
                 /\ pc[t] = "downloading"
                 /\ pc'[t] = "shown"
                 /\ cache'[selection[t]] = stock_data'[t]
                 /\ \A c \in DOMAIN cache :
                       c # selection[t] => c \in DOMAIN cache' /\ cache'[c] = cache[c]]_vars

\* a session's second run, on a code that is memoized, has fitted a model
\* on the closing prices of the rows the cache holds for that code
C8_Witness ==
    \E s \in Sessions :
        /\ runs[s] = 2
        /\ pc[s] = "fitted"
        /\ selection[s] \in DOMAIN cache
        /\ stock_data[s] = cache[selection[s]]
        /\ NRows(stock_data[s]) = MaxRows
        /\ results[s] # NONE
        /\ results[s].endog.values = stock_data[s].data["Close"]

\* C10: the prepared series has, for every raw row in order, the row's
\* date as ds and the row's closing price as y, unchanged; it is as long
\* as the raw series, and preparing leaves the raw frame and the cache as
\* they were.
C10_PrepareExtractsClose ==
    [][\A s \in Sessions :
          /\ df_train'[s] # NONE =>
                /\ NRows(df_train'[s]) = NRows(stock_data'[s])
                /\ df_train'[s].index = stock_data'[s].index
                /\ DOMAIN df_train'[s].data = {"ds", "y"}
                /\ Len(df_train'[s].data["ds"]) = NRows(stock_data'[s])
                /\ Len(df_train'[s].data["y"]) = NRows(stock_data'[s])
                /\ \A i \in 1..NRows(stock_data'[s]) :
                      /\ df_train'[s].data["ds"][i] = stock_data'[s].data["Date"][i]
                      /\ df_train'[s].data["y"][i] = stock_data'[s].data["Close"][i]
                /\ DOMAIN stock_data'[s].data = {"Date", "Open", "Close"}
          /\ (df_train[s] = NONE /\ df_train'[s] # NONE) =>
                /\ stock_data'[s] = stock_data[s]
                /\ cache' = cache]_vars

C10_Witness ==
    \E s \in Sessions :
        /\ pc[s] = "prepared"
        /\ NRows(df_train[s]) = MaxRows
        /\ df_train[s].data["y"][2] # df_train[s].data["y"][1]
        /\ df_train[s].data["ds"][NRows(df_train[s])] > MaxRows

====
